---- MODULE Spec2Model ----
(***************************************************************************)
(* Model of rustascii's ImageEngine (src/src/image_proc.rs): the dimension *)
(* resolver, the luminance mapper and the colour run encoder that          *)
(* render_to_text and get_ascii_as_string drive over a resampled RGBA      *)
(* frame.                                                                  *)
(*                                                                         *)
(* Representation.  A pixel is <<r, g, b, a>>.  An Option is a sequence of *)
(* length 0 (None) or 1 (Some).  A float is a record [kind, num, den]:     *)
(* kind "fin" is the rational num/den, kind "inf" is +infinity, kind "nan" *)
(* is NaN.  A fragment written to the sink is [kind, color, ch].           *)
(***************************************************************************)
EXTENDS Integers, Sequences, FiniteSets

\* ------------------------------------------------------------------ bounds

\* A source image has at most MaxSrcCells pixels.
MaxSrcCells == 2
\* Requested widths and heights of a render are 1 .. MaxReq.
MaxReq == 2
\* calculate_dimensions alone: source dimensions are 1 .. MaxSrcDim.
MaxSrcDim == 4
\* calculate_dimensions alone: requested values are 0 .. MaxDimReq.
MaxDimReq == 5

\* The pixels source images are drawn from: an opaque black (intensity 0), an
\* opaque red, a transparent red (same colour, other alpha) and a darker red.
Palette == { <<0, 0, 0, 255>>, <<255, 0, 0, 255>>, <<255, 0, 0, 0>>, <<128, 0, 0, 255>> }
\* The alpha thresholds a render is called with.
Thresholds == { 0, 255 }

\* ------------------------------------------------------------------ values

None == << >>
Some(v) == << v >>

\* ansi_term::Color::RGB(pixel[0], pixel[1], pixel[2]): alpha is not part of it.
Color(pixel) == << pixel[1], pixel[2], pixel[3] >>

NoColor == << >>
\* color.prefix(): the set-foreground escape of a colour.
Prefix(color) == [kind |-> "prefix", color |-> color, ch |-> ""]
\* color.suffix(): the reset escape.
Suffix == [kind |-> "suffix", color |-> NoColor, ch |-> ""]
\* writeln!(writer) / output.push('\n').
NewLine == [kind |-> "newline", color |-> NoColor, ch |-> ""]
\* write!(writer, "{char_for_pixel}").
Glyph(c) == [kind |-> "glyph", color |-> NoColor, ch |-> c]

\* crate::ascii::DEFAULT, the glyph ramp from emptiest to fullest.
DEFAULT == << ".", ":", "+", "#", "@" >>

\* ------------------------------------------------------------------ floats

\* Intensities are counted in units of 1/170000, the common denominator of
\* 0.2989, 0.5870 and 0.1140/255.0, so that they stay integers.  Values are
\* exact rationals: f64 rounding is left out, the special values (NaN, +inf)
\* and their casts are kept.
Fin(n, d) == [kind |-> "fin", num |-> n, den |-> d]
NaN == [kind |-> "nan", num |-> 0, den |-> 1]
Inf == [kind |-> "inf", num |-> 0, den |-> 1]

\* f64 division of two non-negative finite values: x/0 is +inf, 0/0 is NaN.
FDiv(x, y) ==
    IF y.num = 0
    THEN IF x.num = 0 THEN NaN ELSE Inf
    ELSE Fin(x.num * y.den, x.den * y.num)

\* f64 multiplication by a non-negative integer: inf * 0 is NaN.
FMulInt(x, k) ==
    CASE x.kind = "nan" -> NaN
      [] x.kind = "inf" -> IF k = 0 THEN NaN ELSE Inf
      [] OTHER -> Fin(x.num * k, x.den)

\* f64::max(self, other): a NaN operand yields the other one.
FMax(x, y) ==
    CASE x.kind = "nan" -> y
      [] y.kind = "nan" -> x
      [] x.kind = "inf" -> x
      [] y.kind = "inf" -> y
      [] OTHER -> IF x.num * y.den >= y.num * x.den THEN x ELSE y

FLeq(x, y) == x.num * y.den <= y.num * x.den

\* AsUsize with a NaN that is out of range like an infinity.
AsUsize_NanSaturates(x) ==
    CASE x.kind = "nan" -> [sat |-> TRUE, val |-> 0]
      [] x.kind = "inf" -> [sat |-> TRUE, val |-> 0]
      [] OTHER -> [sat |-> FALSE, val |-> x.num \div x.den]

\* `as usize`: truncates, NaN becomes 0, +inf saturates at usize::MAX.
AsUsize(x) ==
    CASE x.kind = "nan" -> [sat |-> FALSE, val |-> 0]
      [] x.kind = "inf" -> [sat |-> TRUE, val |-> 0]
      [] OTHER -> [sat |-> FALSE, val |-> x.num \div x.den]

\* ------------------------------------------------------------------ luminance

\* 0.2989, 0.5870 and 0.1140/255.0 in units of 1/170000.
WeightR == 50813
WeightG == 99790
WeightB == 76

\* get_grayscale_pixel: only the blue term is divided by 255.
get_grayscale_pixel(pixel) ==
    Fin(WeightR * pixel[1] + WeightG * pixel[2] + WeightB * pixel[3], 1)

\* The index get_char_for_pixel computes into DEFAULT.
RampIndex(pixel, maximum) ==
    AsUsize(FMulInt(FDiv(get_grayscale_pixel(pixel), maximum), Len(DEFAULT) - 1))

\* DEFAULT[i]: an index outside the ramp panics.
IndexRamp(i) ==
    IF ~i.sat /\ i.val < Len(DEFAULT) THEN DEFAULT[i.val + 1] ELSE "panic"

\* get_char_for_pixel that indexes the ramp before it tests alpha.
get_char_for_pixel_IndexFirst(pixel, alpha_threshold, maximum) ==
    LET ch == IndexRamp(RampIndex(pixel, maximum))
    IN IF ch = "panic" THEN "panic"
       ELSE IF pixel[4] <= alpha_threshold THEN " " ELSE ch

\* get_char_for_pixel: the character, or "panic".
get_char_for_pixel(pixel, alpha_threshold, maximum) ==
    IF pixel[4] <= alpha_threshold
    THEN " "
    ELSE IndexRamp(RampIndex(pixel, maximum))

\* ------------------------------------------------------------------ dimensions

\* (a / b).ceil() for a >= 0, b > 0.
Ceil(a, b) == (a + b - 1) \div b

\* calculate_dimensions that truncates where the code calls ceil().
calculate_dimensions_Floor(width, height, source_width, source_height) ==
    IF width = None /\ height = None
    THEN [panic |-> TRUE, w |-> 0, h |-> 0]
    ELSE [panic |-> FALSE,
          w |-> IF width # None THEN width[1]
                ELSE (height[1] * source_width) \div (source_height * 2),
          h |-> IF height # None THEN height[1]
                ELSE (width[1] * source_height) \div (source_width * 2)]

\* calculate_dimensions that falls back to 1 x 1 where the code calls expect().
calculate_dimensions_Default(width, height, source_width, source_height) ==
    IF width = None /\ height = None
    THEN [panic |-> FALSE, w |-> 1, h |-> 1]
    ELSE [panic |-> FALSE,
          w |-> IF width # None THEN width[1]
                ELSE Ceil(height[1] * source_width, source_height * 2),
          h |-> IF height # None THEN height[1]
                ELSE Ceil(width[1] * source_height, source_width * 2)]

\* calculate_dimensions: [panic, w, h]; both None fails the expect().
calculate_dimensions(width, height, source_width, source_height) ==
    IF width = None /\ height = None
    THEN [panic |-> TRUE, w |-> 0, h |-> 0]
    ELSE [panic |-> FALSE,
          w |-> IF width # None THEN width[1]
                ELSE Ceil(height[1] * source_width, source_height * 2),
          h |-> IF height # None THEN height[1]
                ELSE Ceil(width[1] * source_height, source_width * 2)]

\* ------------------------------------------------------------------ frames

\* The source images: every grid of at most MaxSrcCells pixels of the palette.
Sources ==
    UNION { { [w |-> sw, h |-> sh, px |-> p] : p \in [1 .. sw * sh -> Palette] } :
            <<sw, sh>> \in { d \in (1 .. MaxSrcCells) \X (1 .. MaxSrcCells) :
                              d[1] * d[2] <= MaxSrcCells } }

Requests == { None } \cup { Some(k) : k \in 1 .. MaxReq }

NoImage == [w |-> 0, h |-> 0, px |-> << >>]

\* source.resize_exact(width, height, FilterType::Nearest).to_rgba8(): the cell
\* (x, y) takes the source pixel under its centre.
resize_exact(src, width, height) ==
    [w |-> width, h |-> height,
     px |-> [i \in 1 .. width * height |->
               LET x == (i - 1) % width
                   y == (i - 1) \div width
                   sx == ((2 * x + 1) * src.w) \div (2 * width)
                   sy == ((2 * y + 1) * src.h) \div (2 * height)
               IN src.px[sy * src.w + sx + 1]]]

\* image.pixels().fold(0.0, |acc, pixel| get_grayscale_pixel(pixel).max(acc))
RECURSIVE FoldMax(_, _, _)
FoldMax(px, i, acc) ==
    IF i > Len(px) THEN acc
    ELSE FoldMax(px, i + 1, FMax(get_grayscale_pixel(px[i]), acc))

\* Maximum that keeps the last pixel's intensity instead of the largest.
Maximum_Last(image) ==
    IF Len(image.px) = 0 THEN Fin(0, 1)
    ELSE get_grayscale_pixel(image.px[Len(image.px)])

Maximum(image) == FoldMax(image.px, 1, Fin(0, 1))

\* The row of the i-th pixel enumerate_pixels yields (row-major, rows from 0).
LineOf(image, i) == (i - 1) \div image.w

\* ------------------------------------------------------------------ get_ascii_as_string

\* StringIteration that keeps prev_color across a row break.
StringIteration_KeepColor(image, alpha_threshold, maximum, i, st) ==
    LET pixel == image.px[i]
        line == LineOf(image, i)
        broken == st.current_line < line
        out1 == IF broken
                THEN (IF st.prev_color # None
                      THEN Append(st.output, Suffix) ELSE st.output) \o << NewLine >>
                ELSE st.output
        color == Color(pixel)
        out2 == IF st.prev_color # Some(color) THEN Append(out1, Prefix(color)) ELSE out1
        ch == get_char_for_pixel(pixel, alpha_threshold, maximum)
    IN [output |-> Append(out2, Glyph(ch)),
        prev_color |-> Some(color),
        current_line |-> IF broken THEN line ELSE st.current_line,
        panic |-> st.panic \/ ch = "panic"]

\* One iteration of get_ascii_as_string's loop over the i-th pixel.
StringIteration(image, alpha_threshold, maximum, i, st) ==
    LET pixel == image.px[i]
        line == LineOf(image, i)
        broken == st.current_line < line
        out1 == IF broken
                THEN (IF st.prev_color # None
                      THEN Append(st.output, Suffix) ELSE st.output) \o << NewLine >>
                ELSE st.output
        prev1 == IF broken THEN None ELSE st.prev_color
        color == Color(pixel)
        out2 == IF prev1 # Some(color) THEN Append(out1, Prefix(color)) ELSE out1
        ch == get_char_for_pixel(pixel, alpha_threshold, maximum)
    IN [output |-> Append(out2, Glyph(ch)),
        prev_color |-> Some(color),
        current_line |-> IF broken THEN line ELSE st.current_line,
        panic |-> st.panic \/ ch = "panic"]

RECURSIVE StringLoop(_, _, _, _, _)
StringLoop(image, alpha_threshold, maximum, i, st) ==
    IF i > Len(image.px) \/ st.panic THEN st
    ELSE StringLoop(image, alpha_threshold, maximum, i + 1,
                    StringIteration(image, alpha_threshold, maximum, i, st))

\* get_ascii_as_string: [panic, out], out the returned string as its fragments.
get_ascii_as_string(src, alpha_threshold, width, height) ==
    LET dims == calculate_dimensions(width, height, src.w, src.h)
        image == resize_exact(src, dims.w, dims.h)
        st == StringLoop(image, alpha_threshold, Maximum(image), 1,
                         [output |-> << >>, prev_color |-> None,
                          current_line |-> 0, panic |-> FALSE])
    IN IF dims.panic \/ st.panic
       THEN [panic |-> TRUE, out |-> << >>]
       ELSE [panic |-> FALSE,
             out |-> IF st.prev_color # None
                     THEN Append(st.output, Prefix(st.prev_color[1]))
                     ELSE st.output]

\* ------------------------------------------------------------------ state

VARIABLES
    source,           \* the engine's image: [w, h, px]
    alpha_threshold,  \* the arguments the engine's methods are called with
    width,
    height,
    pc,               \* render_to_text: "idle", the write it is about to make, "done"
    image,            \* the resampled frame
    maximum,          \* the frame's largest intensity
    prev_color,       \* Option<Color>
    current_line,
    idx,              \* the pixel the loop is at, from 1
    sink,             \* the fragments the writer accepted during this call
    attempts,         \* the write and flush calls made on the writer in this call
    flushed,          \* the writer's flush returned Ok
    result,           \* "none", "running", "Ok", "IoError", "panic"
    prevOut,          \* Option: what the previous successful render wrote
    strOut,           \* Option: what get_ascii_as_string returned
    dimIn,            \* calculate_dimensions alone: [width, height, sw, sh]
    dimOut,           \* Option: its result
    chrIn,            \* get_char_for_pixel alone: [pixel, alpha_threshold, maximum]
    chrOut            \* Option: its result

args == << source, alpha_threshold, width, height >>
local == << image, maximum, prev_color, current_line, idx >>
writer == << sink, attempts, flushed >>
pure == << dimIn, dimOut, chrIn, chrOut >>
vars == << args, pc, local, writer, result, prevOut, strOut, pure >>

NoDimIn == [width |-> None, height |-> None, sw |-> 1, sh |-> 1]
NoChrIn == [pixel |-> <<0, 0, 0, 0>>, alpha_threshold |-> 0, maximum |-> Fin(0, 1)]

Init ==
    /\ source \in Sources
    /\ alpha_threshold \in Thresholds
    /\ width \in Requests
    /\ height \in Requests
    /\ pc = "idle"
    /\ image = NoImage
    /\ maximum = Fin(0, 1)
    /\ prev_color = None
    /\ current_line = 0
    /\ idx = 1
    /\ sink = << >>
    /\ attempts = 0
    /\ flushed = FALSE
    /\ result = "none"
    /\ prevOut = None
    /\ strOut = None
    /\ dimIn = NoDimIn
    /\ dimOut = None
    /\ chrIn = NoChrIn
    /\ chrOut = None

\* ------------------------------------------------------------------ render_to_text

\* NextWrite that compares the rows with <= where the code has <.
NextWrite_BreakEveryCell(img, i, line, prev) ==
    IF i > Len(img.px)
    THEN IF prev # None THEN "write_final" ELSE "flush"
    ELSE IF line <= LineOf(img, i)
         THEN IF prev # None THEN "write_suffix" ELSE "write_newline"
         ELSE IF prev # Some(Color(img.px[i])) THEN "write_prefix" ELSE "write_glyph"

\* Where the loop stands before the i-th pixel, or after the last one: the next
\* write it makes.
NextWrite(img, i, line, prev) ==
    IF i > Len(img.px)
    THEN IF prev # None THEN "write_final" ELSE "flush"
    ELSE IF line < LineOf(img, i)
         THEN IF prev # None THEN "write_suffix" ELSE "write_newline"
         ELSE IF prev # Some(Color(img.px[i])) THEN "write_prefix" ELSE "write_glyph"

\* current_line = line, when the row advances.
NextLine(img, i, line) ==
    IF i <= Len(img.px) /\ line < LineOf(img, i) THEN LineOf(img, i) ELSE line

\* A write the writer accepts.
WriteOk(fragment) ==
    /\ sink' = Append(sink, fragment)
    /\ attempts' = attempts + 1
    /\ UNCHANGED flushed

\* WriteErr that drops the error, so that the statement is run again.
WriteErr_Retry ==
    /\ attempts' = attempts + 1
    /\ UNCHANGED << sink, flushed, local, result, pc >>

\* A write or flush the writer fails: `?` returns the error.
WriteErr ==
    /\ attempts' = attempts + 1
    /\ result' = "IoError"
    /\ pc' = "done"
    /\ UNCHANGED << sink, flushed, local >>

\* render_to_text up to its loop: dimensions, resampling, the maximum.
CallRender ==
    /\ pc \in { "idle", "done" }
    /\ prevOut' = IF result = "Ok" THEN Some(sink) ELSE prevOut
    /\ sink' = << >>
    /\ attempts' = 0
    /\ flushed' = FALSE
    /\ LET dims == calculate_dimensions(width, height, source.w, source.h)
           img == resize_exact(source, dims.w, dims.h)
       IN IF dims.panic
          THEN /\ result' = "panic"
               /\ pc' = "done"
               /\ image' = NoImage
               /\ maximum' = Fin(0, 1)
               /\ prev_color' = None
               /\ current_line' = 0
               /\ idx' = 1
          ELSE /\ result' = "running"
               /\ image' = img
               /\ maximum' = Maximum(img)
               /\ prev_color' = None
               /\ current_line' = NextLine(img, 1, 0)
               /\ idx' = 1
               /\ pc' = NextWrite(img, 1, 0, None)
    /\ UNCHANGED << args, strOut, pure >>

\* write!(writer, "{}", color.suffix())?; prev_color = None;
WriteSuffix ==
    /\ pc = "write_suffix"
    /\ \E ok \in BOOLEAN :
          IF ok
          THEN /\ WriteOk(Suffix)
               /\ prev_color' = None
               /\ pc' = "write_newline"
               /\ UNCHANGED << image, maximum, current_line, idx, result >>
          ELSE WriteErr
    /\ UNCHANGED << args, prevOut, strOut, pure >>

\* writeln!(writer)?;
WriteNewline ==
    /\ pc = "write_newline"
    /\ \E ok \in BOOLEAN :
          IF ok
          THEN /\ WriteOk(NewLine)
               /\ pc' = IF prev_color # Some(Color(image.px[idx]))
                         THEN "write_prefix" ELSE "write_glyph"
               /\ UNCHANGED << local, result >>
          ELSE WriteErr
    /\ UNCHANGED << args, prevOut, strOut, pure >>

\* write!(writer, "{}", color.prefix())?; prev_color = Some(color);
WritePrefix ==
    /\ pc = "write_prefix"
    /\ \E ok \in BOOLEAN :
          IF ok
          THEN /\ WriteOk(Prefix(Color(image.px[idx])))
               /\ prev_color' = Some(Color(image.px[idx]))
               /\ pc' = "write_glyph"
               /\ UNCHANGED << image, maximum, current_line, idx, result >>
          ELSE WriteErr
    /\ UNCHANGED << args, prevOut, strOut, pure >>

\* get_char_for_pixel, write!(writer, "{char_for_pixel}")?, and on to the next
\* pixel or out of the loop.
WriteGlyph ==
    /\ pc = "write_glyph"
    /\ LET ch == get_char_for_pixel(image.px[idx], alpha_threshold, maximum)
       IN IF ch = "panic"
          THEN /\ result' = "panic"
               /\ pc' = "done"
               /\ UNCHANGED << local, writer >>
          ELSE \E ok \in BOOLEAN :
                 IF ok
                 THEN /\ WriteOk(Glyph(ch))
                      /\ idx' = idx + 1
                      /\ current_line' = NextLine(image, idx + 1, current_line)
                      /\ pc' = NextWrite(image, idx + 1, current_line, prev_color)
                      /\ UNCHANGED << image, maximum, prev_color, result >>
                 ELSE WriteErr
    /\ UNCHANGED << args, prevOut, strOut, pure >>

\* After the loop: if let Some(color) = prev_color { write!(.., color.prefix())? }
WriteFinal ==
    /\ pc = "write_final"
    /\ \E ok \in BOOLEAN :
          IF ok
          THEN /\ WriteOk(Prefix(prev_color[1]))
               /\ pc' = "flush"
               /\ UNCHANGED << local, result >>
          ELSE WriteErr
    /\ UNCHANGED << args, prevOut, strOut, pure >>

\* writer.flush()?; Ok(())
Flush ==
    /\ pc = "flush"
    /\ \E ok \in BOOLEAN :
          IF ok
          THEN /\ attempts' = attempts + 1
               /\ flushed' = TRUE
               /\ result' = "Ok"
               /\ pc' = "done"
               /\ UNCHANGED << sink, local >>
          ELSE WriteErr
    /\ UNCHANGED << args, prevOut, strOut, pure >>

\* A call of get_ascii_as_string with the same arguments.
CallGetAscii ==
    /\ pc \in { "idle", "done" }
    /\ strOut' = Some(get_ascii_as_string(source, alpha_threshold, width, height))
    /\ UNCHANGED << args, pc, local, writer, result, prevOut, pure >>

Next ==
    \/ CallRender
    \/ WriteSuffix
    \/ WriteNewline
    \/ WritePrefix
    \/ WriteGlyph
    \/ WriteFinal
    \/ Flush
    \/ CallGetAscii

Spec == Init /\ [][Next]_vars

\* ------------------------------------------------------------------ calculate_dimensions alone

DimRequests == { None } \cup { Some(k) : k \in 0 .. MaxDimReq }

InitDim ==
    /\ dimIn \in [width : DimRequests, height : DimRequests,
                   sw : 1 .. MaxSrcDim, sh : 1 .. MaxSrcDim]
    /\ dimOut = None
    /\ source = [w |-> 1, h |-> 1, px |-> << <<0, 0, 0, 0>> >>]
    /\ alpha_threshold = 0
    /\ width = None
    /\ height = None
    /\ pc = "idle"
    /\ image = NoImage
    /\ maximum = Fin(0, 1)
    /\ prev_color = None
    /\ current_line = 0
    /\ idx = 1
    /\ sink = << >>
    /\ attempts = 0
    /\ flushed = FALSE
    /\ result = "none"
    /\ prevOut = None
    /\ strOut = None
    /\ chrIn = NoChrIn
    /\ chrOut = None

\* A call of calculate_dimensions on an engine whose source is sw x sh.
CallCalculateDimensions ==
    /\ dimOut = None
    /\ dimOut' = Some(calculate_dimensions(dimIn.width, dimIn.height, dimIn.sw, dimIn.sh))
    /\ UNCHANGED << args, pc, local, writer, result, prevOut, strOut, dimIn, chrIn, chrOut >>

NextDim == CallCalculateDimensions

SpecDim == InitDim /\ [][NextDim]_vars

\* ------------------------------------------------------------------ get_char_for_pixel alone

CharPixels ==
    Palette \cup { <<0, 0, 0, 0>>, <<0, 255, 0, 100>>, <<10, 20, 30, 100>>, <<0, 0, 255, 255>> }
CharThresholds == { 0, 100, 255 }
CharMaxima == { Fin(0, 1) } \cup { get_grayscale_pixel(p) : p \in CharPixels }

InitChar ==
    /\ chrIn \in [pixel : CharPixels, alpha_threshold : CharThresholds,
                   maximum : CharMaxima]
    /\ chrOut = None
    /\ source = [w |-> 1, h |-> 1, px |-> << <<0, 0, 0, 0>> >>]
    /\ alpha_threshold = 0
    /\ width = None
    /\ height = None
    /\ pc = "idle"
    /\ image = NoImage
    /\ maximum = Fin(0, 1)
    /\ prev_color = None
    /\ current_line = 0
    /\ idx = 1
    /\ sink = << >>
    /\ attempts = 0
    /\ flushed = FALSE
    /\ result = "none"
    /\ prevOut = None
    /\ strOut = None
    /\ dimIn = NoDimIn
    /\ dimOut = None

\* A call of get_char_for_pixel.
CallGetCharForPixel ==
    /\ chrOut = None
    /\ chrOut' = Some(get_char_for_pixel(chrIn.pixel, chrIn.alpha_threshold, chrIn.maximum))
    /\ UNCHANGED << args, pc, local, writer, result, prevOut, strOut, dimIn, dimOut, chrIn >>

NextChar == CallGetCharForPixel

SpecChar == InitChar /\ [][NextChar]_vars

\* ------------------------------------------------------------------ reading the sink

Positions(s, kind) == { j \in 1 .. Len(s) : s[j].kind = kind }
Count(s, kind) == Cardinality(Positions(s, kind))
\* The number of fragments of a kind among the first j of s.
CountUpTo(s, kind, j) == Cardinality({ k \in Positions(s, kind) : k <= j })

\* The cells whose colour differs from the cell before in row-major order, the
\* first cell of every row counted as a change.
Changes(img) ==
    { i \in 1 .. Len(img.px) :
        \/ (i - 1) % img.w = 0
        \/ Color(img.px[i]) # Color(img.px[i - 1]) }

IsPrefixOf(s, t) == Len(s) <= Len(t) /\ \A j \in 1 .. Len(s) : s[j] = t[j]

Uniform(img) == Len(img.px) > 0 /\ \A i \in 1 .. Len(img.px) : img.px[i] = img.px[1]

RampChars == { DEFAULT[i] : i \in 1 .. Len(DEFAULT) }

\* ------------------------------------------------------------------ claims

\* C1: a completed render has written as many set-foreground escapes as the
\* frame has colour changes in row-major order, the first cell of every row
\* counted as a change.
C1_EscapesEqualChanges ==
    result = "Ok" => Count(sink, "prefix") = Cardinality(Changes(image))

\* C2: a reset escape is written at a row advance and at the end of the stream
\* exactly when a colour is open, and prev_color is None after it: every line
\* break follows a reset, and a completed render of a non-empty frame ends with
\* a reset and leaves no colour open.
C2_ResetClosesEveryRun ==
    (result = "Ok" /\ Len(image.px) > 0) =>
        /\ \A j \in Positions(sink, "newline") : j > 1 /\ sink[j - 1].kind = "suffix"
        /\ sink[Len(sink)].kind = "suffix"
        /\ prev_color = None

C5_IndexInsideRamp ==
    /\ result = "panic" => (width = None /\ height = None)
    /\ result \in { "running", "Ok", "IoError" } =>
          \A i \in 1 .. Len(image.px) :
              image.px[i][4] > alpha_threshold =>
                  LET r == RampIndex(image.px[i], maximum)
                  IN ~r.sat /\ r.val \in 0 .. Len(DEFAULT) - 1

C5_Witness ==
    /\ result = "Ok"
    /\ \E i \in 1 .. Len(image.px) :
          /\ image.px[i][4] > alpha_threshold
          /\ RampIndex(image.px[i], maximum).val = 2
    /\ \E i \in 1 .. Len(image.px) :
          /\ image.px[i][4] > alpha_threshold
          /\ RampIndex(image.px[i], maximum).val = Len(DEFAULT) - 1

\* C6: in a render of a frame whose pixels are all one pixel above the alpha
\* threshold, nothing panics and every glyph written is the ramp's last
\* character, the maximum being the pixel's intensity, when that intensity is
\* positive, and the ramp's first character when it is 0; a completed render
\* has written one such glyph per cell.
C6_UniformFrame ==
    (/\ result \in { "running", "Ok", "IoError", "panic" }
     /\ (width # None \/ height # None)
     /\ Uniform(image)
     /\ image.px[1][4] > alpha_threshold) =>
        LET g == get_grayscale_pixel(image.px[1])
            expected == IF g.num > 0 THEN DEFAULT[Len(DEFAULT)] ELSE DEFAULT[1]
        IN /\ result # "panic"
           /\ maximum = g
           /\ \A j \in Positions(sink, "glyph") : sink[j].ch = expected
           /\ result = "Ok" => Count(sink, "glyph") = Len(image.px)

C6_Witness ==
    /\ result = "Ok"
    /\ Uniform(image)
    /\ Len(image.px) >= 2
    /\ image.px[1][4] > alpha_threshold
    /\ get_grayscale_pixel(image.px[1]).num = 0
    /\ Count(sink, "glyph") = Len(image.px)

C8_ErrorReturned ==
    (width = None /\ height = None /\ pc = "done") =>
        result = "InvalidDimensions" /\ attempts = 0

\* C8, amended: a render called with neither width nor height panics in
\* calculate_dimensions; it returns no error value and makes no write or flush
\* on the sink.
C8_PanicsBeforeWriting ==
    (width = None /\ height = None /\ pc # "idle") =>
        /\ pc = "done"
        /\ result = "panic"
        /\ sink = << >>
        /\ attempts = 0
        /\ ~flushed

C8_Witness ==
    /\ width = None
    /\ height = None
    /\ result = "panic"

\* C9: a render that returned an I/O error made exactly one failed call on the
\* writer, its last, and touches the writer no more; a render that returned Ok
\* had every write accepted and the flush made after the last of them.
C9_FirstErrorEndsRender ==
    /\ [](result = "IoError" =>
             /\ pc = "done"
             /\ attempts = Len(sink) + 1
             /\ ~flushed)
    /\ [](result = "Ok" =>
             /\ pc = "done"
             /\ flushed
             /\ attempts = Len(sink) + 1
             /\ Count(sink, "glyph") = Len(image.px))
    /\ [](result = "running" => attempts = Len(sink) /\ ~flushed)
    /\ [][result = "IoError" => (result' = "running" \/ UNCHANGED writer)]_vars

C9_Witness ==
    /\ result = "IoError"
    /\ Len(sink) >= 3
    /\ Len(image.px) >= 2

\* C10: what a render writes to a writer that never fails is, fragment for
\* fragment, what get_ascii_as_string returns for the same arguments, the two
\* panic on the same arguments, and a repeated render writes the same again.
C10_SameAsString ==
    LET s == get_ascii_as_string(source, alpha_threshold, width, height)
    IN /\ result = "Ok" => ~s.panic /\ sink = s.out
       /\ result \in { "running", "IoError" } => ~s.panic /\ IsPrefixOf(sink, s.out)
       /\ result = "panic" => s.panic
       /\ (result = "Ok" /\ strOut # None) => sink = strOut[1].out
       /\ (result = "Ok" /\ prevOut # None) => sink = prevOut[1]

C10_Witness ==
    /\ result = "Ok"
    /\ strOut # None
    /\ prevOut # None
    /\ image.h = 2
    /\ image.w = 2
    /\ Color(image.px[1]) = Color(image.px[3])

====
